---- MODULE Spec2Model ----
(***************************************************************************)
(* HW Catalog Entry (src/src/data_entry_page.py): a Streamlit form whose   *)
(* submit handler validates the typed fields, checks the CSV catalog for a *)
(* duplicate and appends the row by loading the file and rewriting it.     *)
(*                                                                         *)
(* Text is modelled as a sequence of one-character strings, so that        *)
(* str.strip and str.lower are computed character by character.  A data    *)
(* frame is a record [columns, rows]; the CSV file is a record             *)
(* [exists, header, records] holding the text of every cell.               *)
(***************************************************************************)
EXTENDS Integers, Sequences, FiniteSets, TLC

\* The most rows a successful save may leave in the file (the program has no cap).
MaxRows == 2

----------------------------------------------------------------------------
(* Text: str.strip(), str.lower() *)

Whitespace == {" ", "\t"}

UpperCase == <<"A","B","C","D","E","F","G","H","I","J","K","L","M",
               "N","O","P","Q","R","S","T","U","V","W","X","Y","Z">>

LowerCase == <<"a","b","c","d","e","f","g","h","i","j","k","l","m",
               "n","o","p","q","r","s","t","u","v","w","x","y","z">>

LowerChar(c) ==
  IF \E i \in 1..Len(UpperCase) : UpperCase[i] = c
  THEN LowerCase[CHOOSE i \in 1..Len(UpperCase) : UpperCase[i] = c]
  ELSE c

\* str.lower()
Lower(s) == [i \in 1..Len(s) |-> LowerChar(s[i])]

RECURSIVE LStrip(_)
LStrip(s) == IF s # <<>> /\ Head(s) \in Whitespace THEN LStrip(Tail(s)) ELSE s

RECURSIVE RStrip(_)
RStrip(s) ==
  IF s # <<>> /\ s[Len(s)] \in Whitespace THEN RStrip(SubSeq(s, 1, Len(s) - 1)) ELSE s

\* str.strip()
Strip(s) == RStrip(LStrip(s))

\* x.strip().lower(), the normal form duplicate_exists compares
Norm(s) == Lower(Strip(s))

----------------------------------------------------------------------------
(* The schema *)

COLUMNS == << "Toy #", "Collector #", "Name", "Series", "Series #", "Year",
              "Rarity", "Exclusive Description", "Color", "Tampo", "Base Color",
              "Window Color", "Interior Color", "Wheel Type" >>

Range(q) == {q[i] : i \in 1..Len(q)}

rarity_options == << <<"T","H">>,
                     <<"S","T","H">>,
                     <<"N","o","r","m","a","l">>,
                     <<"N","e","w"," ","M","o","d","e","l">>,
                     <<"N","e","w"," ","f","o","r"," ","Y","e","a","r">>,
                     <<"N","e","w"," ","i","n"," ","M","a","i","n","l","i","n","e">>,
                     <<"E","x","c","l","u","s","i","v","e">> >>

Normal == rarity_options[3]

Exclusive == rarity_options[7]

----------------------------------------------------------------------------
(* pandas: read_csv, fillna, concat, to_csv *)

\* A missing value of a data frame (float nan); no text is equal to it.
NaN == << "nan (missing value)" >>

\* The cell texts pd.read_csv takes for a missing value unless keep_default_na=False
NaValues == { <<>>,
              <<"#","N","/","A">>, <<"#","N","/","A"," ","N","/","A">>, <<"#","N","A">>,
              <<"-","1",".","#","I","N","D">>, <<"-","1",".","#","Q","N","A","N">>,
              <<"-","N","a","N">>, <<"-","n","a","n">>,
              <<"1",".","#","I","N","D">>, <<"1",".","#","Q","N","A","N">>,
              <<"<","N","A",">">>, <<"N","/","A">>, <<"N","A">>, <<"N","U","L","L">>,
              <<"N","a","N">>, <<"N","o","n","e">>, <<"n","/","a">>, <<"n","a","n">>,
              <<"n","u","l","l">> }

\* One cell as read_csv(dtype=str) yields it
ReadCell(text) == IF text \in NaValues THEN NaN ELSE text

\* One cell as to_csv writes it (na_rep = "")
WriteCell(v) == IF v = NaN THEN <<>> ELSE v

\* DataFrame.fillna("") on one value
FillNa(v) == IF v = NaN THEN <<>> ELSE v

\* pd.DataFrame(columns=COLUMNS)
EmptyFrame == [columns |-> COLUMNS, rows |-> <<>>]

\* pd.read_csv(CSV_FILE, dtype=str).fillna(""): the frame has the file's columns
ReadCsv(file) ==
  LET at == [c \in Range(file.header) |->
               CHOOSE k \in 1..Len(file.header) : file.header[k] = c]
  IN  [columns |-> file.header,
       rows    |-> [i \in 1..Len(file.records) |->
                     [c \in Range(file.header) |-> FillNa(ReadCell(file.records[i][at[c]]))]]]

\* A file with no header line makes read_csv raise EmptyDataError
Unparsable(file) == file.header = <<>>

load_catalog(file) ==
  IF file.exists
  THEN IF Unparsable(file)
       THEN EmptyFrame
       ELSE LET df == ReadCsv(file)
            IN  [columns |-> COLUMNS,
                 rows    |-> [i \in 1..Len(df.rows) |->
                               [c \in Range(COLUMNS) |->
                                  IF c \in Range(df.columns) THEN df.rows[i][c]
                                                              ELSE <<>>]]]
  ELSE EmptyFrame

\* The columns of pd.concat([df, pd.DataFrame([row])]): df's, then the row's new ones
ConcatColumns(df, row) ==
  df.columns \o SelectSeq(COLUMNS, LAMBDA c : c \in DOMAIN row /\ c \notin Range(df.columns))

\* pd.concat([df, pd.DataFrame([row])], ignore_index=True)
Concat(df, row) ==
  LET cols == ConcatColumns(df, row)
      Fit(r) == [c \in Range(cols) |-> IF c \in DOMAIN r THEN r[c] ELSE NaN]
  IN  [columns |-> cols,
       rows    |-> [i \in 1..Len(df.rows) |-> Fit(df.rows[i])] \o << Fit(row) >>]

\* df.to_csv(CSV_FILE, index=False): the whole file is rewritten
to_csv(df) ==
  [exists  |-> TRUE,
   header  |-> df.columns,
   records |-> [i \in 1..Len(df.rows) |->
                 [k \in 1..Len(df.columns) |-> WriteCell(df.rows[i][df.columns[k]])]]]

----------------------------------------------------------------------------
(* duplicate_exists *)

\* df[col].astype(str).str.strip().str.lower() == v, one boolean per row
ColumnMask(df, col, v) == [i \in 1..Len(df.rows) |-> Norm(df.rows[i][col]) = v]

\* duplicate_exists with the Year column left out of the mask
duplicate_exists_m(df, toy_no, name, series, rarity, year) ==
  \E i \in 1..Len(df.rows) :
    /\ ColumnMask(df, "Toy #", Norm(toy_no))[i]
    /\ ColumnMask(df, "Name", Norm(name))[i]
    /\ ColumnMask(df, "Series", Norm(series))[i]
    /\ ColumnMask(df, "Rarity", Norm(rarity))[i]

duplicate_exists(df, toy_no, name, series, rarity, year) ==
  IF df.rows = <<>>
  THEN FALSE
  ELSE LET t == Norm(toy_no)
           n == Norm(name)
           s == Norm(series)
           r == Norm(rarity)
           y == Norm(year)
           mask == [i \in 1..Len(df.rows) |->
                      /\ ColumnMask(df, "Toy #", t)[i]
                      /\ ColumnMask(df, "Name", n)[i]
                      /\ ColumnMask(df, "Series", s)[i]
                      /\ ColumnMask(df, "Rarity", r)[i]
                      /\ ColumnMask(df, "Year", y)[i]]
       IN  \E i \in 1..Len(mask) : mask[i]

----------------------------------------------------------------------------
(* The form and the submit handler *)

\* The widgets of a new session: every text input empty, Rarity at index 2
ResetState ==
  [toy_no |-> <<>>, name |-> <<>>, series |-> <<>>, rarity |-> Normal,
   collector_no |-> <<>>, series_no |-> <<>>, year |-> <<>>, color |-> <<>>,
   tampo |-> <<>>, base_color |-> <<>>, window_color |-> <<>>,
   interior_color |-> <<>>, wheel_type |-> <<>>, exclusive_desc |-> <<>>]

\* required with Series left out of the dict
required_m(f) == << <<"Toy #", Strip(f.toy_no)>>, <<"Name", Strip(f.name)>>,
                    <<"Rarity", Strip(f.rarity)>> >>

\* required = {...}: the required fields, trimmed, in the order of the dict
required(f) == << <<"Toy #", Strip(f.toy_no)>>, <<"Name", Strip(f.name)>>,
                  <<"Series", Strip(f.series)>>, <<"Rarity", Strip(f.rarity)>> >>

\* missing = [k for k, v in required.items() if not v]
missing(f) ==
  LET kept == SelectSeq(required(f), LAMBDA kv : kv[2] = <<>>)
  IN  [i \in 1..Len(kept) |-> kept[i][1]]

\* The description tested without .strip()
ExclusiveWithoutDescription_m(f) ==
  f.rarity = Exclusive /\ f.exclusive_desc = <<>>

\* rarity == "Exclusive" and not exclusive_desc.strip()
ExclusiveWithoutDescription(f) ==
  f.rarity = Exclusive /\ Strip(f.exclusive_desc) = <<>>

\* row = {...}: every field trimmed
Row(f) ==
  [c \in Range(COLUMNS) |->
     CASE c = "Toy #"                 -> Strip(f.toy_no)
       [] c = "Collector #"           -> Strip(f.collector_no)
       [] c = "Name"                  -> Strip(f.name)
       [] c = "Series"                -> Strip(f.series)
       [] c = "Series #"              -> Strip(f.series_no)
       [] c = "Year"                  -> Strip(f.year)
       [] c = "Rarity"                -> Strip(f.rarity)
       [] c = "Exclusive Description" -> Strip(f.exclusive_desc)
       [] c = "Color"                 -> Strip(f.color)
       [] c = "Tampo"                 -> Strip(f.tampo)
       [] c = "Base Color"            -> Strip(f.base_color)
       [] c = "Window Color"          -> Strip(f.window_color)
       [] c = "Interior Color"        -> Strip(f.interior_color)
       [] c = "Wheel Type"            -> Strip(f.wheel_type)]

\* The messages the handler shows
Message(kind, fields) == [kind |-> kind, fields |-> fields]

MissingRequired(fields) == Message("MissingRequired", fields)

ExclusiveRequired == Message("ExclusiveRequired", <<>>)

DuplicateSkip == Message("DuplicateSkip", <<>>)

Success == Message("Success", <<>>)

SaveFailed == Message("SaveFailed", <<>>)

\* The two st.error branches of the handler; <<>> when the input passes both
Validation(f) ==
  IF missing(f) # <<>> THEN << MissingRequired(missing(f)) >>
  ELSE IF ExclusiveWithoutDescription(f) THEN << ExclusiveRequired >>
  ELSE <<>>

\* catalog = load_catalog(); if duplicate_exists(catalog, ...)
IsDuplicate(catalog, f) ==
  duplicate_exists(catalog, f.toy_no, f.name, f.series, f.rarity, f.year)

\* What a to_csv that raises may leave behind: the file untouched (it could
\* not be opened), or truncated by the open and holding the lines written
\* before the failure.
FailedWrites(file, new) ==
  {file, [exists |-> TRUE, header |-> <<>>, records |-> <<>>]}
    \cup {[new EXCEPT !.records = SubSeq(new.records, 1, k)] :
            k \in 0..(Len(new.records) - 1)}

\* The keys the handler clears after a successful save
ClearedKeys == {"toy_no", "collector_no", "name", "series", "series_no", "year",
                "color", "tampo", "base_color", "window_color", "interior_color",
                "wheel_type", "exclusive_desc"}

\* for k in [...]: st.session_state[k] = ""; st.session_state["rarity"] = "Normal"
Reset(state) ==
  [k \in DOMAIN state |->
     IF k \in ClearedKeys THEN <<>> ELSE IF k = "rarity" THEN Normal ELSE state[k]]

----------------------------------------------------------------------------
(* The values typed into the form *)

BaseInput == [ResetState EXCEPT !.toy_no = <<"A">>, !.name = <<"B">>, !.series = <<"C">>]

\* Toy # and Year, with padding, a change of case and a cell text of NaValues
KeyInputs ==
  {[BaseInput EXCEPT !.toy_no = t, !.year = y] :
     t \in {<<" ","A">>, <<"a">>, <<"N","A">>}, y \in {<<>>, <<"1"," ">>}}

\* Required fields empty or blank, with and without an Exclusive Description
ValidationInputs ==
  {[ResetState EXCEPT !.toy_no = t, !.name = n, !.series = s, !.rarity = r,
                      !.exclusive_desc = e] :
     t \in {<<>>, <<"A"," ">>}, n \in {<<" ">>, <<"B">>}, s \in {<<"\t">>, <<"C">>},
     r \in {Normal, Exclusive}, e \in {<<>>, <<" ">>, <<" ","E">>}}

\* Every optional field filled, each with a text of its own
OptionalInputs ==
  {[BaseInput EXCEPT !.collector_no = <<" ","1">>, !.series_no = <<"2">>,
                     !.color = <<"r">>, !.tampo = t, !.base_color = <<"b">>,
                     !.window_color = <<"w"," ">>, !.interior_color = <<"i">>,
                     !.wheel_type = <<"5","S","P">>] :
     t \in {<<"t">>, <<"N","o","n","e">>}}
    \cup {[BaseInput EXCEPT !.year = <<"1">>]}

\* Every option of the Rarity selectbox
RarityInputs ==
  {[BaseInput EXCEPT !.rarity = rarity_options[i]] : i \in 1..Len(rarity_options)}

\* What two concurrent sessions type
ConcurrentInputs == {BaseInput, [BaseInput EXCEPT !.toy_no = <<"N">>]}

\* The values typed in one run of the program come from one of these sets
Vocabularies == {"keys", "validation", "optional", "rarity"}

InputsOf(v) ==
  CASE v = "keys"       -> KeyInputs
    [] v = "validation" -> ValidationInputs
    [] v = "optional"   -> OptionalInputs
    [] v = "rarity"     -> RarityInputs
    [] v = "concurrent" -> ConcurrentInputs
    [] OTHER            -> {}

----------------------------------------------------------------------------
(* State *)

VARIABLES
  sessions,       \* the browser sessions running the script
  vocabulary,     \* the set of inputs the sessions type from
  csv,            \* CSV_FILE
  pc,             \* per session: where its script run stands
  widgets,        \* per session: the values the widgets returned to the run
  session_state,  \* per session: st.session_state of the form's keys
  catalog,        \* per session: the handler's catalog (line 128), while it saves
  row,            \* per session: the handler's row, while it saves
  df,             \* per session: save_row's df, while it saves
  outcome,        \* per session: the messages the run has shown
  csv0,           \* per session: the file when the run started
  io,             \* per session: "none", "ok" or "failed", the run's to_csv
  repeat_of,      \* per session: see Submit
  saved,          \* the inputs of the runs whose to_csv returned, in order
  disturbed,      \* whether a to_csv has raised so far
  call            \* a call of duplicate_exists: its arguments and its result

vars == << sessions, vocabulary, csv, pc, widgets, session_state, catalog, row,
           df, outcome, csv0, io, repeat_of, saved, disturbed, call >>

Sessions == {1, 2}

NoFile == [exists |-> FALSE, header |-> <<>>, records |-> <<>>]

EmptyFile == [exists |-> TRUE, header |-> <<>>, records |-> <<>>]

NoRow == [c \in Range(COLUMNS) |-> <<>>]

NoCall == [df |-> EmptyFrame, toy_no |-> <<>>, name |-> <<>>, series |-> <<>>,
           rarity |-> <<>>, year |-> <<>>, done |-> FALSE, ret |-> FALSE]

\* The composite the duplicate check is about, as the row holds it
KeyColumns == {"Toy #", "Name", "Series", "Rarity", "Year"}

RowKey(r) == [c \in KeyColumns |-> r[c]]

InitSessions(active, vocabularies) ==
  /\ sessions = active
  /\ vocabulary \in vocabularies
  /\ csv \in {NoFile, EmptyFile}
  /\ pc = [s \in Sessions |-> "ready"]
  /\ widgets = [s \in Sessions |-> ResetState]
  /\ session_state = [s \in Sessions |-> ResetState]
  /\ catalog = [s \in Sessions |-> EmptyFrame]
  /\ row = [s \in Sessions |-> NoRow]
  /\ df = [s \in Sessions |-> EmptyFrame]
  /\ outcome = [s \in Sessions |-> <<>>]
  /\ csv0 = [s \in Sessions |-> csv]
  /\ io = [s \in Sessions |-> "none"]
  /\ repeat_of = [s \in Sessions |-> -1]
  /\ saved = <<>>
  /\ disturbed = FALSE
  /\ call = NoCall

Init == InitSessions({1}, Vocabularies)

InitConcurrent == InitSessions(Sessions, {"concurrent"})

----------------------------------------------------------------------------
(* The script run of a submission: lines 114-176 *)

\* save_row reading the file again as it writes
Rewritten_m(loaded, new) == to_csv(Concat(load_catalog(csv), new))

\* save_row, lines 49-50: the file written from the frame line 48 loaded
Rewritten(loaded, new) == to_csv(Concat(loaded, new))

\* What the run shows and leaves in st.session_state once to_csv has returned.
\* The keys are assigned after their widgets were created: Streamlit either
\* accepts the assignments (the run is then restarted by st.rerun), or
\* rejects the first with an exception, which the handler's except reports.
AfterSave(state) ==
  { [shown |-> << Success >>, state |-> Reset(state)],
    [shown |-> << Success, SaveFailed >>, state |-> state] }

\* The reset done in a rejecting branch as well
AfterRejection_m(state) == Reset(state)

\* st.session_state after a run that ends in st.error or st.warning before the
\* try statement: no branch of these assigns to it
AfterRejection(state) == state

\* st.success called before save_row
AfterFailure_m == << Success, SaveFailed >>

\* What the run shows once to_csv has raised
AfterFailure == << SaveFailed >>

\* The user fills the form with f and presses Save; the run goes as far as its
\* next access to the file after the catalog was loaded.  repeat_of records,
\* when the run before this one saved a row with the composite typed now, the
\* length of the catalog that run started from (else -1).
Submit(s, f) ==
  LET shown == Validation(f)
      loaded == load_catalog(csv)
  IN
  /\ s \in sessions
  /\ pc[s] = "ready"
  /\ widgets' = [widgets EXCEPT ![s] = f]
  /\ csv0' = [csv0 EXCEPT ![s] = csv]
  /\ io' = [io EXCEPT ![s] = "none"]
  /\ repeat_of' = [repeat_of EXCEPT ![s] =
                     IF io[s] = "ok" /\ RowKey(Row(widgets[s])) = RowKey(Row(f))
                     THEN Len(load_catalog(csv0[s]).rows) ELSE -1]
  /\ IF shown # <<>>
     THEN /\ outcome' = [outcome EXCEPT ![s] = shown]
          /\ session_state' = [session_state EXCEPT ![s] = AfterRejection(f)]
          /\ UNCHANGED << pc, catalog, row >>
     ELSE IF IsDuplicate(loaded, f)
          THEN /\ outcome' = [outcome EXCEPT ![s] = << DuplicateSkip >>]
               /\ session_state' = [session_state EXCEPT ![s] = AfterRejection(f)]
               /\ UNCHANGED << pc, catalog, row >>
          ELSE /\ Len(csv.records) < MaxRows
               /\ catalog' = [catalog EXCEPT ![s] = loaded]
               /\ row' = [row EXCEPT ![s] = Row(f)]
               /\ outcome' = [outcome EXCEPT ![s] = <<>>]
               /\ session_state' = [session_state EXCEPT ![s] = f]
               /\ pc' = [pc EXCEPT ![s] = "save_row"]
  /\ UNCHANGED << sessions, vocabulary, csv, df, saved, disturbed, call >>

\* save_row, line 48: df = load_catalog()
SaveLoad(s) ==
  /\ s \in sessions
  /\ pc[s] = "save_row"
  /\ df' = [df EXCEPT ![s] = load_catalog(csv)]
  /\ pc' = [pc EXCEPT ![s] = "to_csv"]
  /\ UNCHANGED << sessions, vocabulary, csv, widgets, session_state, catalog, row,
                  outcome, csv0, io, repeat_of, saved, disturbed, call >>

\* save_row, lines 49-50, and the rest of the try statement; the run ends and
\* its variables with it.  The log of saved rows is kept until the first
\* to_csv that raises.
SaveWrite(s) ==
  /\ s \in sessions
  /\ pc[s] = "to_csv"
  /\ pc' = [pc EXCEPT ![s] = "ready"]
  /\ catalog' = [catalog EXCEPT ![s] = EmptyFrame]
  /\ row' = [row EXCEPT ![s] = NoRow]
  /\ df' = [df EXCEPT ![s] = EmptyFrame]
  /\ \/ /\ csv' = Rewritten(df[s], row[s])
        /\ \E after \in AfterSave(session_state[s]) :
             /\ outcome' = [outcome EXCEPT ![s] = after.shown]
             /\ session_state' = [session_state EXCEPT ![s] = after.state]
        /\ io' = [io EXCEPT ![s] = "ok"]
        /\ saved' = IF disturbed THEN saved ELSE Append(saved, widgets[s])
        /\ UNCHANGED disturbed
     \/ /\ csv' \in FailedWrites(csv, Rewritten(df[s], row[s]))
        /\ outcome' = [outcome EXCEPT ![s] = AfterFailure]
        /\ io' = [io EXCEPT ![s] = "failed"]
        /\ disturbed' = TRUE
        /\ saved' = <<>>
        /\ UNCHANGED session_state
  /\ UNCHANGED << sessions, vocabulary, widgets, csv0, repeat_of, call >>

Next ==
  \E s \in Sessions :
    \/ \E f \in InputsOf(vocabulary) : Submit(s, f)
    \/ SaveLoad(s)
    \/ SaveWrite(s)

\* One session: the submissions follow one another
Spec == Init /\ [][Next]_vars

\* Two sessions on the same file: their runs interleave at every file access
SpecConcurrent == InitConcurrent /\ [][Next]_vars

----------------------------------------------------------------------------
(* duplicate_exists taken alone: its arguments drawn from bounded sets *)

\* Toy # texts: padded, in either case, blank, with a gap inside
DuplicateTexts == { <<>>, <<" ">>, <<"A">>, <<" ","a">>, <<"a","\t">>, <<" ","A"," ">>,
                    <<"a","A">>, <<"a"," ","a">>, <<"a","a">> }

KeyRow(t, n, s, r, y) ==
  [NoRow EXCEPT !["Toy #"] = t, !["Name"] = n, !["Series"] = s, !["Rarity"] = r,
                !["Year"] = y]

\* Rows that differ from one another in one column of the composite
DuplicateRows ==
  {KeyRow(t, <<"B">>, <<"C">>, Normal, <<>>) : t \in DuplicateTexts}
    \cup {KeyRow(<<"A">>, n, <<"C">>, Normal, <<>>) : n \in {<<" ","b">>, <<"x">>}}
    \cup {KeyRow(<<"A">>, <<"B">>, s, Normal, <<>>) : s \in {<<"c"," ">>, <<"x">>}}
    \cup {KeyRow(<<"A">>, <<"B">>, <<"C">>, r, <<>>) :
            r \in {<<"n","o","r","m","a","l">>, Exclusive}}
    \cup {KeyRow(<<"A">>, <<"B">>, <<"C">>, Normal, y) : y \in {<<" ">>, <<"1">>}}

DuplicateFrames ==
  UNION {[1..n -> DuplicateRows] : n \in 0..MaxRows}

InitDuplicate ==
  /\ sessions = {}
  /\ vocabulary = "none"
  /\ csv = NoFile
  /\ pc = [s \in Sessions |-> "ready"]
  /\ widgets = [s \in Sessions |-> ResetState]
  /\ session_state = [s \in Sessions |-> ResetState]
  /\ catalog = [s \in Sessions |-> EmptyFrame]
  /\ row = [s \in Sessions |-> NoRow]
  /\ df = [s \in Sessions |-> EmptyFrame]
  /\ outcome = [s \in Sessions |-> <<>>]
  /\ csv0 = [s \in Sessions |-> csv]
  /\ io = [s \in Sessions |-> "none"]
  /\ repeat_of = [s \in Sessions |-> -1]
  /\ saved = <<>>
  /\ disturbed = FALSE
  /\ \E rows \in DuplicateFrames, c \in DuplicateRows :
       call = [df |-> [columns |-> COLUMNS, rows |-> rows],
               toy_no |-> c["Toy #"], name |-> c["Name"], series |-> c["Series"],
               rarity |-> c["Rarity"], year |-> c["Year"],
               done |-> FALSE, ret |-> FALSE]

DuplicateCall ==
  /\ ~call.done
  /\ call' = [call EXCEPT !.done = TRUE,
                          !.ret = duplicate_exists(call.df, call.toy_no, call.name,
                                                   call.series, call.rarity, call.year)]
  /\ UNCHANGED << sessions, vocabulary, csv, pc, widgets, session_state, catalog,
                  row, df, outcome, csv0, io, repeat_of, saved, disturbed >>

NextDuplicate == DuplicateCall

SpecDuplicate == InitDuplicate /\ [][NextDuplicate]_vars

----------------------------------------------------------------------------
(* The vocabulary of the claims, stated without the program's operators *)

\* Only whitespace, or nothing at all
Blank(t) == \A i \in 1..Len(t) : t[i] \in Whitespace

\* t without its leading and trailing whitespace
Trimmed(t) ==
  LET inked == {i \in 1..Len(t) : t[i] \notin Whitespace}
  IN  IF inked = {} THEN <<>>
      ELSE SubSeq(t, CHOOSE i \in inked : \A j \in inked : i <= j,
                     CHOOSE i \in inked : \A j \in inked : i >= j)

SameLetter(c, d) ==
  c = d \/ \E i \in 1..Len(UpperCase) : {c, d} = {UpperCase[i], LowerCase[i]}

\* Equal but for case and for leading and trailing whitespace
SameText(a, b) ==
  /\ Len(Trimmed(a)) = Len(Trimmed(b))
  /\ \A i \in 1..Len(Trimmed(a)) : SameLetter(Trimmed(a)[i], Trimmed(b)[i])

\* The widget a column is filled from
ColumnKey ==
  [c \in Range(COLUMNS) |->
     CASE c = "Toy #" -> "toy_no"            [] c = "Collector #" -> "collector_no"
       [] c = "Name" -> "name"               [] c = "Series" -> "series"
       [] c = "Series #" -> "series_no"      [] c = "Year" -> "year"
       [] c = "Rarity" -> "rarity"
       [] c = "Exclusive Description" -> "exclusive_desc"
       [] c = "Color" -> "color"             [] c = "Tampo" -> "tampo"
       [] c = "Base Color" -> "base_color"   [] c = "Window Color" -> "window_color"
       [] c = "Interior Color" -> "interior_color"
       [] c = "Wheel Type" -> "wheel_type"]

RequiredColumns == {"Toy #", "Name", "Series", "Rarity"}

\* The submitted row: the 14 typed values, trimmed
SubmittedRow(f) == [c \in Range(COLUMNS) |-> Trimmed(f[ColumnKey[c]])]

BlankRequired(f) == {c \in RequiredColumns : Blank(f[ColumnKey[c]])}

NeedsDescription(f) ==
  Trimmed(f.rarity) = Exclusive /\ Blank(f.exclusive_desc)

ValidInput(f) == BlankRequired(f) = {} /\ ~NeedsDescription(f)

\* Row r carries the composite key typed in f
MatchesKey(r, f) == \A c \in KeyColumns : SameText(r[c], f[ColumnKey[c]])

\* No row of the catalog load() returns for the file carries the key of f
Fresh(file, f) ==
  \A i \in 1..Len(load_catalog(file).rows) : ~MatchesKey(load_catalog(file).rows[i], f)

\* The run of session s is over
Done(s) == s \in sessions /\ pc[s] = "ready" /\ outcome[s] # <<>>

Shown(s) == {outcome[s][i].kind : i \in 1..Len(outcome[s])}

\* The cell of column c in record i of the file
Cell(i, c) == csv.records[i][CHOOSE k \in 1..Len(csv.header) : csv.header[k] = c]

----------------------------------------------------------------------------
(* The claims *)

\* C1: a submission with non-blank Toy #, Name, Series and Rarity, with a
\* non-blank Exclusive Description when Rarity is Exclusive, whose composite key
\* matches no row of the current catalog, and whose file write does not fail,
\* yields Success, and the submitted row, all 14 fields trimmed, is the last
\* row of the catalog the next load() returns.
C1_ValidFreshIsSavedLast ==
  \A s \in Sessions :
    (Done(s) /\ ValidInput(widgets[s]) /\ Fresh(csv0[s], widgets[s]) /\ io[s] # "failed")
      => /\ "Success" \in Shown(s)
         /\ load_catalog(csv).rows # <<>>
         /\ load_catalog(csv).rows[Len(load_catalog(csv).rows)] = SubmittedRow(widgets[s])

\* C2: when at least one of Toy #, Name, Series, Rarity is blank, the run ends
\* in the one missing-fields error, and the fields it lists are exactly the
\* blank required fields, each once.
C2_MissingListedExactly ==
  \A s \in Sessions :
    (Done(s) /\ BlankRequired(widgets[s]) # {})
      => /\ Len(outcome[s]) = 1
         /\ outcome[s][1].kind = "MissingRequired"
         /\ Range(outcome[s][1].fields) = BlankRequired(widgets[s])
         /\ Len(outcome[s][1].fields) = Cardinality(BlankRequired(widgets[s]))

C2_Witness ==
  \E s \in Sessions :
    /\ Done(s)
    /\ BlankRequired(widgets[s]) = {"Toy #", "Series"}
    /\ widgets[s].series # <<>>
    /\ outcome[s] = << MissingRequired(<< "Toy #", "Series" >>) >>

\* C3, as claimed: Rarity "Exclusive" with a blank Exclusive Description ends
\* in the exclusive-description error whatever the other fields hold.
C3_ExclusiveErrorRegardless ==
  \A s \in Sessions :
    (Done(s) /\ NeedsDescription(widgets[s]))
      => outcome[s] = << ExclusiveRequired >>

\* C3, amended: Rarity "Exclusive" with a blank Exclusive Description ends in
\* the exclusive-description error whenever Toy #, Name and Series are not
\* blank, whatever the other fields hold and whatever the catalog holds.
C3_ExclusiveErrorWhenRequiredPresent ==
  \A s \in Sessions :
    (Done(s) /\ NeedsDescription(widgets[s]) /\ BlankRequired(widgets[s]) = {})
      => outcome[s] = << ExclusiveRequired >>

C3_Witness ==
  \E s \in Sessions :
    /\ Done(s)
    /\ widgets[s].rarity = Exclusive
    /\ widgets[s].exclusive_desc = << " " >>
    /\ BlankRequired(widgets[s]) = {}
    /\ outcome[s] = << ExclusiveRequired >>

\* C4: when a valid submission repeats the composite of the submission before
\* it, and that one was saved, it ends in DuplicateSkip and the catalog is one
\* row longer than before the first of the two.
C4_RepeatIsSkipped ==
  \A s \in Sessions :
    (Done(s) /\ repeat_of[s] >= 0 /\ ValidInput(widgets[s]))
      => /\ outcome[s] = << DuplicateSkip >>
         /\ Len(load_catalog(csv).rows) = repeat_of[s] + 1

\* C5: duplicate_exists returns true exactly when some row of the catalog has
\* Toy #, Name, Series, Rarity and Year equal to the candidate's but for case
\* and for leading and trailing whitespace (so never on an empty catalog).
C5_DuplicateExistsIffMatch ==
  call.done =>
    (call.ret <=>
       \E i \in 1..Len(call.df.rows) :
         /\ SameText(call.df.rows[i]["Toy #"], call.toy_no)
         /\ SameText(call.df.rows[i]["Name"], call.name)
         /\ SameText(call.df.rows[i]["Series"], call.series)
         /\ SameText(call.df.rows[i]["Rarity"], call.rarity)
         /\ SameText(call.df.rows[i]["Year"], call.year))

C5_Witness ==
  /\ call.done
  /\ call.ret
  /\ Len(call.df.rows) = 2
  /\ call.toy_no = << " ", "a" >>
  /\ call.df.rows[1]["Toy #"] = << "a", "a" >>
  /\ call.df.rows[2]["Toy #"] = << " ", "A", " " >>

\* C6: a run that ends in a validation error or in DuplicateSkip leaves the
\* file as it was when the run started and the form's fields as typed.
C6_RejectionChangesNothing ==
  \A s \in Sessions :
    (Done(s) /\ Shown(s) \cap {"MissingRequired", "ExclusiveRequired", "DuplicateSkip"} # {})
      => /\ csv = csv0[s]
         /\ session_state[s] = widgets[s]

C6_Witness ==
  \E s \in Sessions :
    /\ Done(s)
    /\ outcome[s] = << DuplicateSkip >>
    /\ Len(csv.records) = 2
    /\ session_state[s] # ResetState

\* C7: from a missing or empty file, while no write has failed, load() returns
\* one row per saved submission, in submission order, with the 14 declared
\* columns in the declared order and every field the trimmed value typed.
C7_LoadReturnsSavedRows ==
  ~disturbed =>
    /\ load_catalog(csv).columns = COLUMNS
    /\ Len(load_catalog(csv).rows) = Len(saved)
    /\ \A i \in 1..Len(saved) : load_catalog(csv).rows[i] = SubmittedRow(saved[i])

\* C8: when to_csv raises, the run ends showing the save error and nothing
\* else (never Success), and the form's fields are left as typed.
C8_WriteFailureReported ==
  \A s \in Sessions :
    (Done(s) /\ io[s] = "failed")
      => /\ outcome[s] = << SaveFailed >>
         /\ "Success" \notin Shown(s)
         /\ session_state[s] = widgets[s]

C8_Witness ==
  \E s \in Sessions :
    /\ Done(s)
    /\ io[s] = "failed"
    /\ outcome[s] = << SaveFailed >>
    /\ session_state[s] # ResetState

\* C9: every record of the file has a non-empty Toy #, Name, Series and
\* Rarity, and a non-empty Exclusive Description when its Rarity is Exclusive.
C9_WrittenRowsComplete ==
  \A i \in 1..Len(csv.records) :
    /\ \A c \in RequiredColumns : Cell(i, c) # <<>>
    /\ Cell(i, "Rarity") = Exclusive => Cell(i, "Exclusive Description") # <<>>

\* C10: a save that succeeds leaves in the file the rows the session had
\* loaded in save_row followed by its own row, whatever the file holds by
\* then: a row another session wrote in between is dropped.
C10_LastWriterWins ==
  [][\A s \in Sessions :
       (pc[s] = "to_csv" /\ io'[s] = "ok" /\ pc'[s] = "ready")
         => /\ Len(load_catalog(csv').rows) = Len(df[s].rows) + 1
            /\ \A i \in 1..Len(df[s].rows) : load_catalog(csv').rows[i] = df[s].rows[i]
            /\ load_catalog(csv').rows[Len(df[s].rows) + 1] = SubmittedRow(widgets[s])]_vars

\* Both sessions were told Success, no write failed, and the file holds only
\* the row of the later writer
C10_Witness ==
  /\ \A s \in Sessions : Done(s) /\ "Success" \in Shown(s)
  /\ ~disturbed
  /\ Len(saved) = 2
  /\ SubmittedRow(saved[1]) # SubmittedRow(saved[2])
  /\ Len(load_catalog(csv).rows) = 1
  /\ load_catalog(csv).rows[1] = SubmittedRow(saved[2])

\* Two sessions that typed the same composite key were both told Success and
\* the file holds the row twice
C10_BothSaved ==
  /\ \A s \in Sessions : Done(s) /\ "Success" \in Shown(s)
  /\ Len(load_catalog(csv).rows) = 2
  /\ load_catalog(csv).rows[1] = load_catalog(csv).rows[2]

====
